---- MODULE Spec2Model ----
(***************************************************************************)
(* Model of src/main.rs: the Excel -> CSV -> Redshift lambda.              *)
(* handle_excel is followed call by call (pc), excel_to_csv_string row by  *)
(* row.  External collaborators (S3, Secrets Manager, Postgres) succeed or *)
(* fail nondeterministically.                                              *)
(***************************************************************************)
EXTENDS Integers, Sequences, FiniteSets, Bags, TLC

\* Longest worksheet (data rows, header not counted) explored.
MaxRows == 3

VARIABLES
    key,            \* the decoded S3 key, as its "/"-separated segments
    sheet,          \* data rows of worksheet "data" (after the header row)
    pc,             \* position inside handle_excel
    index,          \* enumerate() counter of the loop at line 111
    canonical_date, \* line 106
    locations,      \* line 103
    wtr,            \* csv::Writer buffer: a sequence of lines of four fields
    retained,       \* input positions of the rows handed to wtr.serialize
    printed,        \* what line 119 prints: <<index + 2, error>>
    calls,          \* calls made by this run of handle_excel, with their outcome
    result,         \* "running", "Ok", "Err" or "Panic"
    error,          \* the error (or panic) that ended the run
    bucket,         \* objects of OUTPUT_BUCKET: key -> lines
    table,          \* public.test_table: a bag of rows
    second,         \* TRUE while handle_excel runs again on the same worksheet
    first           \* outcome and table at the end of the first run

vars == <<key, sheet, pc, index, canonical_date, locations, wtr, retained,
          printed, calls, result, error, bucket, table, second, first>>

OUTPUT_BUCKET == "output-bucket-name"
COLUMNS == <<"location", "metric", "value", "date">>

----------------------------------------------------------------------------
\* Values

NoDate == [y |-> 0, m |-> 0, d |-> 0]
D1 == [y |-> 2020, m |-> 2, d |-> 1]
D2 == [y |-> 2020, m |-> 2, d |-> 2]
D3 == [y |-> 2019, m |-> 12, d |-> 31]

\* calamine::DataType, one record shape for every kind
Cell(kind, n, s, d) == [kind |-> kind, n |-> n, s |-> s, d |-> d]
EmptyCell == Cell("Empty", 0, "", NoDate)
ErrorCell == Cell("Error", 0, "", NoDate)
IntCell(n) == Cell("Int", n, "", NoDate)
FloatCell(n) == Cell("Float", n, "", NoDate)
TextCell(s) == Cell("Text", 0, s, NoDate)
DateCell(d) == Cell("Date", 0, "", d)

Row(l, m, v, d) == [location |-> l, metric |-> m, value |-> v, date |-> d]

\* Option<f64>: <<>> is None, <<x>> is Some(x)
None == <<>>
Some(x) == <<x>>

NoRecord == [location |-> "", metric |-> "", value |-> None, date |-> NoDate]

----------------------------------------------------------------------------
\* Cell coercion and row decoding

OkOpt(v) == [ok |-> TRUE, val |-> v]

de_opt_f64_ErrorFails(cell) ==
    CASE cell.kind = "Error" -> [ok |-> FALSE, val |-> None]
      [] cell.kind = "Float" -> OkOpt(Some(cell.n))
      [] cell.kind = "Int" -> OkOpt(Some(cell.n))
      [] OTHER -> OkOpt(None)

\* Result<Option<f64>, D::Error>; "Int(i) => i as f64" keeps the number
de_opt_f64(cell) ==
    CASE cell.kind = "Error" -> OkOpt(None)
      [] cell.kind = "Float" -> OkOpt(Some(cell.n))
      [] cell.kind = "Int" -> OkOpt(Some(cell.n))
      [] OTHER -> OkOpt(None)

\* DataType::as_date: only a cell carrying a date converts
as_date(cell) == IF cell.kind = "Date" THEN Some(cell.d) ELSE None

de_date_TextParsed(cell) ==
    LET x == IF cell.kind = "Text" /\ cell.s = "2020-02-01" THEN Some(D1)
             ELSE IF cell.kind = "Text" /\ cell.s = "2020-02-02" THEN Some(D2)
             ELSE as_date(cell)
    IN  IF x = None THEN [ok |-> FALSE, date |-> NoDate, err |-> "Invalid Date"]
        ELSE [ok |-> TRUE, date |-> x[1], err |-> ""]

de_date(cell) ==
    LET x == as_date(cell)
    IN  IF x = None THEN [ok |-> FALSE, date |-> NoDate, err |-> "Invalid Date"]
        ELSE [ok |-> TRUE, date |-> x[1], err |-> ""]

\* a String field: text converts, an error cell is a cell error
de_string(cell) ==
    IF cell.kind = "Text" THEN [ok |-> TRUE, s |-> cell.s, err |-> ""]
    ELSE [ok |-> FALSE, s |-> "", err |-> "CellError"]

RowErr(e) == [ok |-> FALSE, rec |-> NoRecord, err |-> e]

\* #[derive(Deserialize)] RawExcelRow: fields in declaration order, the
\* first failing field is the row's error
DecodeRow(row) ==
    LET l == de_string(row.location)
        m == de_string(row.metric)
        v == de_opt_f64(row.value)
        d == de_date(row.date)
    IN  IF ~l.ok THEN RowErr(l.err)
        ELSE IF ~m.ok THEN RowErr(m.err)
        ELSE IF ~v.ok THEN RowErr("Value")
        ELSE IF ~d.ok THEN RowErr(d.err)
        ELSE [ok |-> TRUE,
              rec |-> [location |-> l.s, metric |-> m.s, value |-> v.val,
                       date |-> d.date],
              err |-> ""]

----------------------------------------------------------------------------
\* Tabular encoding

Pad2(n) == IF n < 10 THEN "0" \o ToString(n) ELSE ToString(n)

\* chrono format "%Y-%m-%d"
FormatDate(d) == ToString(d.y) \o "-" \o Pad2(d.m) \o "-" \o Pad2(d.d)

\* csv serializes f64 through ryu (5.0 -> "5.0") and None as an empty field
FormatOptF64(v) == IF v = None THEN "" ELSE ToString(v[1]) \o ".0"

\* wtr.serialize(row): one line, fields in declaration order
Serialize(rec) ==
    <<rec.location, rec.metric, FormatOptF64(rec.value), FormatDate(rec.date)>>

----------------------------------------------------------------------------
\* Inputs

\* rows that decode, on two dates and two locations
PlainRows ==
    {Row(TextCell(l), TextCell("sales"), IntCell(5), DateCell(d)) :
        l \in {"UK", "FR"}, d \in {D1, D2}}

\* every other kind of cell in the value column
ValueRows ==
    {Row(TextCell("UK"), TextCell("sales"), v, DateCell(D1)) :
        v \in {EmptyCell, ErrorCell, FloatCell(7), TextCell("n/a"), DateCell(D2)}}
    \cup {Row(TextCell("FR"), TextCell("sales"), ErrorCell, DateCell(D1))}

\* rows that do not decode: a date that is text, a location that is an error
BadRows ==
    {Row(TextCell("US"), TextCell("sales"), IntCell(7), TextCell("not-a-date")),
     Row(ErrorCell, TextCell("sales"), IntCell(5), DateCell(D1))}

Rows == PlainRows \cup ValueRows \cup BadRows

Sheets == UNION {[1..n -> Rows] : n \in 0..MaxRows}

\* "input/<label>/<file>", and a key without a second segment
Keys == {<<"input", "sales", "test_excel.xlsx">>, <<"test_excel.xlsx">>}

\* rows already in the target table: one of another location, one of the
\* partition about to be reloaded, one of another date
InitialTable ==
    SetToBag({<<"DE", "sales", "1.0", FormatDate(D1)>>,
              <<"UK", "sales", "9.0", FormatDate(D1)>>,
              <<"UK", "sales", "3.0", FormatDate(D3)>>})

NoObjects == [k \in {} |-> <<>>]

----------------------------------------------------------------------------
\* excel_to_csv_string, piece by piece

\* the header line csv::Writer emits before the first record: the field
\* names of RawExcelRow
Header == <<"location", "metric", "value", "date">>

KeepRow_Always(rec, canon) == TRUE

\* line 114
KeepRow(rec, canon) == rec.date = canon

LocationsAfter_Unfiltered(locs, rec, canon) == locs \cup {rec.location}

\* lines 114-115
LocationsAfter(locs, rec, canon) ==
    IF KeepRow(rec, canon) THEN locs \cup {rec.location} ELSE locs

WtrAfter_Prepend(w, rec) == <<Head(w)>> \o <<Serialize(rec)>> \o Tail(w)

\* line 116 (and 108)
WtrAfter(w, rec) == Append(w, Serialize(rec))

\* line 119: the number printed for enumerate() index i
ReportIndex(i) == i + 2

\* the data row the loop holds at enumerate() index i: next() at line 105 has
\* taken row 1 already
RowAt(i) == i + 2

----------------------------------------------------------------------------
\* handle_excel

Call(name, ok) == [name |-> name, ok |-> ok]

label == key[2]

\* line 133
OutputKey(lbl, date) == "output/" \o lbl \o "_" \o FormatDate(date) \o ".csv"

\* DELETE FROM public.test_table WHERE date = '..' AND location IN (..)
DeleteWhere(t, date, locs) ==
    [r \in {x \in DOMAIN t : ~(x[4] = FormatDate(date) /\ x[1] \in locs)} |-> t[r]]

RECURSIVE BagOfSeq(_)
BagOfSeq(s) ==
    IF s = <<>> THEN EmptyBag ELSE SetToBag({Head(s)}) (+) BagOfSeq(Tail(s))

\* COPY ... FORMAT CSV EMPTYASNULL IGNOREHEADER 1: every line after the first
\* becomes a row; an empty field is the row's NULL
CopyFrom(t, lines) == t (+) BagOfSeq(Tail(lines))

AfterDelete_Propagated(ok) == IF ok THEN "copy" ELSE "done"

\* line 221: the Result of the DELETE is printed, never inspected
AfterDelete(ok) == "copy"

Fresh ==
    /\ pc = "label"
    /\ index = 0
    /\ canonical_date = NoDate
    /\ locations = {}
    /\ wtr = <<>>
    /\ retained = <<>>
    /\ printed = <<>>
    /\ calls = <<>>
    /\ result = "running"
    /\ error = ""

Init ==
    /\ key \in Keys
    /\ sheet \in Sheets
    /\ Fresh
    /\ bucket = NoObjects
    /\ table = InitialTable
    /\ second = FALSE
    /\ first = [done |-> FALSE, ok |-> FALSE, table |-> EmptyBag]

engine == <<index, canonical_date, locations, wtr, retained, printed>>
world == <<bucket, table>>
input == <<key, sheet, second, first>>

End(res, e) ==
    /\ result' = res
    /\ error' = e
    /\ pc' = "done"

\* line 228: key.split("/").nth(1).unwrap()
Label ==
    /\ pc = "label"
    /\ IF Len(key) < 2
       THEN End("Panic", "unwrap on None")
       ELSE pc' = "fetch" /\ UNCHANGED <<result, error>>
    /\ UNCHANGED <<engine, world, input, calls>>

\* line 229: get_excel_from_s3
Fetch ==
    /\ pc = "fetch"
    /\ \E ok \in BOOLEAN :
        /\ calls' = Append(calls, Call("get_excel_from_s3", ok))
        /\ IF ok
           THEN pc' = "open" /\ UNCHANGED <<result, error>>
           ELSE End("Err", "GetObject")
    /\ UNCHANGED <<engine, world, input>>

\* lines 94-103: the worksheet "data" and its header row are found, or not
Open ==
    /\ pc = "open"
    /\ \E ok \in BOOLEAN :
        IF ok
        THEN pc' = "first" /\ UNCHANGED <<result, error, calls>>
        ELSE /\ calls' = Append(calls, Call("excel_to_csv_string", FALSE))
             /\ End("Err", "Worksheet")
    /\ UNCHANGED <<engine, world, input>>

\* lines 105-109
First ==
    /\ pc = "first"
    /\ IF sheet = <<>>
       THEN /\ calls' = Append(calls, Call("excel_to_csv_string", FALSE))
            /\ End("Panic", "unwrap on None")
            /\ UNCHANGED engine
       ELSE LET row == DecodeRow(sheet[1])
            IN  IF ~row.ok
                THEN /\ calls' = Append(calls, Call("excel_to_csv_string", FALSE))
                     /\ End("Err", row.err)
                     /\ UNCHANGED engine
                ELSE /\ canonical_date' = row.rec.date
                     /\ locations' = locations \cup {row.rec.location}
                     /\ wtr' = WtrAfter(<<Header>>, row.rec)
                     /\ retained' = <<1>>
                     /\ pc' = "loop"
                     /\ UNCHANGED <<index, printed, calls, result, error>>
    /\ UNCHANGED <<world, input>>

\* lines 111-121, one iteration
Loop ==
    /\ pc = "loop"
    /\ RowAt(index) <= Len(sheet)
    /\ LET row == DecodeRow(sheet[RowAt(index)])
       IN  IF row.ok
           THEN /\ locations' = LocationsAfter(locations, row.rec, canonical_date)
                /\ IF KeepRow(row.rec, canonical_date)
                   THEN /\ wtr' = WtrAfter(wtr, row.rec)
                        /\ retained' = Append(retained, RowAt(index))
                   ELSE UNCHANGED <<wtr, retained>>
                /\ UNCHANGED printed
           ELSE /\ printed' = Append(printed, <<ReportIndex(index), row.err>>)
                /\ UNCHANGED <<locations, wtr, retained>>
    /\ index' = index + 1
    /\ UNCHANGED <<canonical_date, pc, calls, result, error, world, input>>

\* lines 123-125
Finish ==
    /\ pc = "loop"
    /\ RowAt(index) > Len(sheet)
    /\ calls' = Append(calls, Call("excel_to_csv_string", TRUE))
    /\ pc' = "upload"
    /\ UNCHANGED <<engine, result, error, world, input>>

\* line 233: upload_csv_to_s3
Upload ==
    /\ pc = "upload"
    /\ \E ok \in BOOLEAN :
        /\ calls' = Append(calls, Call("upload_csv_to_s3", ok))
        /\ IF ok
           THEN /\ bucket' = [k \in DOMAIN bucket \cup {OutputKey(label, canonical_date)} |->
                                 IF k = OutputKey(label, canonical_date) THEN wtr
                                 ELSE bucket[k]]
                /\ pc' = "connect"
                /\ UNCHANGED <<result, error>>
           ELSE End("Err", "PutObject") /\ UNCHANGED bucket
    /\ UNCHANGED <<engine, table, input>>

\* lines 173-189: TLS connector, credentials, Client::connect
Connect ==
    /\ pc = "connect"
    /\ \E ok \in BOOLEAN :
        /\ calls' = Append(calls, Call("connect", ok))
        /\ IF ok
           THEN pc' = "delete" /\ UNCHANGED <<result, error>>
           ELSE End("Err", "Connect")
    /\ UNCHANGED <<engine, world, input>>

\* line 221
Delete ==
    /\ pc = "delete"
    /\ \E ok \in BOOLEAN :
        /\ calls' = Append(calls, Call("DELETE", ok))
        /\ table' = IF ok THEN DeleteWhere(table, canonical_date, locations) ELSE table
        /\ IF AfterDelete(ok) = "copy"
           THEN pc' = "copy" /\ UNCHANGED <<result, error>>
           ELSE End("Err", "Delete")
    /\ UNCHANGED <<engine, bucket, input>>

\* lines 222-224, and 236
Copy ==
    /\ pc = "copy"
    /\ \E ok \in BOOLEAN :
        /\ calls' = Append(calls, Call("COPY", ok))
        /\ table' = IF ok THEN CopyFrom(table, bucket[OutputKey(label, canonical_date)])
                    ELSE table
    /\ End("Ok", "")
    /\ UNCHANGED <<engine, bucket, input>>

\* the lambda is invoked once more for the same object
Rerun ==
    /\ pc = "done"
    /\ ~second
    /\ second' = TRUE
    /\ first' = [done |-> TRUE, ok |-> result = "Ok", table |-> table]
    /\ pc' = "label"
    /\ index' = 0
    /\ canonical_date' = NoDate
    /\ locations' = {}
    /\ wtr' = <<>>
    /\ retained' = <<>>
    /\ printed' = <<>>
    /\ calls' = <<>>
    /\ result' = "running"
    /\ error' = ""
    /\ UNCHANGED <<key, sheet, world>>

Next ==
    \/ Label
    \/ Fetch
    \/ Open
    \/ First
    \/ Loop
    \/ Finish
    \/ Upload
    \/ Connect
    \/ Delete
    \/ Copy
    \/ Rerun

Spec == Init /\ [][Next]_vars

----------------------------------------------------------------------------
\* Vocabulary of the properties

WellFormed(p) == DecodeRow(sheet[p]).ok
RecordAt(p) == DecodeRow(sheet[p]).rec
HasWellFormed == \E p \in 1..Len(sheet) : WellFormed(p)
FirstWellFormed ==
    CHOOSE p \in 1..Len(sheet) :
        WellFormed(p) /\ \A q \in 1..(p - 1) : ~WellFormed(q)

Called(name) == \E i \in 1..Len(calls) : calls[i].name = name

\* excel_to_csv_string found the worksheet and has ended (returned or not)
Converted == Called("excel_to_csv_string") /\ error # "Worksheet"

\* excel_to_csv_string has returned Ok((data, locations, canonical_date))
Returned == \E i \in 1..Len(calls) : calls[i] = Call("excel_to_csv_string", TRUE)

\* the loop is running, or the batch has been returned
InBatch == pc = "loop" \/ Returned

\* data rows consumed so far
Consumed == IF pc = "loop" THEN index + 1 ELSE IF Returned THEN Len(sheet) ELSE 0

NoArtifact ==
    ~Called("upload_csv_to_s3") /\ ~Called("DELETE") /\ ~Called("COPY")

RECURSIVE MalformedFrom(_)
MalformedFrom(p) ==
    IF p > Len(sheet) THEN <<>>
    ELSE (IF WellFormed(p) THEN <<>> ELSE <<p>>) \o MalformedFrom(p + 1)

\* a line of the encoder's output read back as a worksheet row: its fields
\* are text, an empty field is an empty cell
FieldCell(f) == IF f = "" THEN EmptyCell ELSE TextCell(f)
LineCells(line) ==
    Row(FieldCell(line[1]), FieldCell(line[2]), FieldCell(line[3]), FieldCell(line[4]))

Order ==
    <<"get_excel_from_s3", "excel_to_csv_string", "upload_csv_to_s3", "connect",
      "DELETE", "COPY">>

----------------------------------------------------------------------------
\* Properties

\* C1: whenever the worksheet holds a well-formed row, excel_to_csv_string
\* returns a batch whose canonical_date is the date of the first well-formed
\* row, whatever malformed rows precede it.  (Fails: a malformed first row
\* is returned as the error of the whole conversion by the "?" of line 105.)
C1_MalformedRowNeverAborts ==
    (Converted /\ HasWellFormed) =>
        (Returned /\ canonical_date = RecordAt(FirstWellFormed).date)

\* C2: a worksheet with no well-formed row makes the run end with an error
\* value, not a crash, and with no upload, DELETE or COPY.  (Fails: with no
\* data row at all, next().unwrap() at line 105 panics.)
C2_EmptyInputIsAnError ==
    (Converted /\ ~HasWellFormed) => (result = "Err" /\ NoArtifact)

\* C3: in every returned batch each retained record has the canonical date,
\* and the canonical date is the date of the first well-formed input row.
C3_CanonicalDate ==
    InBatch =>
        /\ \A i \in 1..Len(retained) : RecordAt(retained[i]).date = canonical_date
        /\ \A i \in 2..Len(wtr) : wtr[i][4] = FormatDate(canonical_date)
        /\ canonical_date = RecordAt(FirstWellFormed).date

C3_Witness ==
    /\ Returned
    /\ Len(retained) >= 2
    /\ \E p \in 1..Len(sheet) : WellFormed(p) /\ RecordAt(p).date # canonical_date

\* C4: the retained records are exactly the well-formed rows carrying the
\* canonical date, in input order, each once, and the row that set the
\* canonical date is among them; the written lines are their encodings.
C4_StableFilter ==
    Returned =>
        /\ \A i \in 1..(Len(retained) - 1) : retained[i] < retained[i + 1]
        /\ {retained[i] : i \in 1..Len(retained)} =
               {p \in 1..Len(sheet) : WellFormed(p) /\ RecordAt(p).date = canonical_date}
        /\ retained[1] = FirstWellFormed
        /\ Len(wtr) = Len(retained) + 1
        /\ wtr[1] = Header
        /\ \A i \in 1..Len(retained) : wtr[i + 1] = Serialize(RecordAt(retained[i]))

C4_Witness ==
    /\ Returned
    /\ retained = <<1, 3>>
    /\ WellFormed(2)
    /\ wtr[2] # wtr[3]

\* C5: locations is exactly the set of locations of the retained records.
C5_Locations ==
    InBatch =>
        /\ locations = {RecordAt(retained[i]).location : i \in 1..Len(retained)}
        /\ locations = {wtr[i][1] : i \in 2..Len(wtr)}

C5_Witness ==
    /\ Returned
    /\ Cardinality(locations) = 1
    /\ \E p \in 1..Len(sheet) :
          WellFormed(p) /\ RecordAt(p).date # canonical_date
              /\ RecordAt(p).location \notin locations
    /\ \E p \in 1..Len(sheet) : ~WellFormed(p) /\ sheet[p].location.s = "US"

\* a row with text location and metric and a date-typed date cell
GoodShape(row) ==
    row.location.kind = "Text" /\ row.metric.kind = "Text" /\ row.date.kind = "Date"

\* C6: whatever cell the value column holds, a row with text location and
\* metric and a date-typed date decodes; Int and Float give the number, any
\* other kind an absent value; a retained record with an absent value is
\* written with an empty value field; and no such row is reported.
C6_ValueNeverFails ==
    /\ \A p \in 1..Consumed :
          GoodShape(sheet[p]) =>
              /\ WellFormed(p)
              /\ RecordAt(p).value =
                    (IF sheet[p].value.kind \in {"Int", "Float"}
                     THEN Some(sheet[p].value.n) ELSE None)
    /\ InBatch =>
          /\ \A i \in 1..Len(retained) :
                (wtr[i + 1][3] = "") <=>
                    (sheet[retained[i]].value.kind \notin {"Int", "Float"})
          /\ Len(printed) = Cardinality({p \in 2..Consumed : ~GoodShape(sheet[p])})

C6_Witness ==
    /\ Returned
    /\ Len(sheet) = 3
    /\ sheet[2] = Row(TextCell("FR"), TextCell("sales"), ErrorCell, DateCell(D1))
    /\ sheet[3].value.kind = "Float"
    /\ retained = <<1, 2, 3>>
    /\ wtr[3] = <<"FR", "sales", "", "2020-02-01">>
    /\ wtr[4][3] = "7.0"

\* C7: a second successful run of handle_excel on the same worksheet leaves
\* the table as the first successful run left it.  (Fails: the results of
\* DELETE and COPY are only printed, so a run whose DELETE failed still
\* loads, and a run whose COPY failed still returns Ok.)
C7_Idempotent ==
    (second /\ pc = "done" /\ result = "Ok" /\ first.ok) => table = first.table

C9_ReportedIndex ==
    Returned =>
        /\ Len(printed) = Len(MalformedFrom(2))
        /\ \A j \in 1..Len(printed) : printed[j][1] = MalformedFrom(2)[j] + 1

\* C10: the calls happen in the order fetch, convert, upload, connect,
\* DELETE, COPY; a failed fetch, convert, upload or connect ends the run
\* with an error and nothing after it; the COPY is executed whatever the
\* DELETE returned, and the run returns Ok whatever the two statements
\* returned.
C10_OrderAndPropagation ==
    /\ Len(calls) <= Len(Order)
    /\ \A i \in 1..Len(calls) : calls[i].name = Order[i]
    /\ \A i \in 1..Len(calls) :
          (~calls[i].ok /\ i <= 4) =>
              (i = Len(calls) /\ pc = "done" /\ result \in {"Err", "Panic"})
    /\ result \in {"Err", "Panic"} =>
          (calls = <<>> \/ (Len(calls) <= 4 /\ ~calls[Len(calls)].ok))
    /\ (pc = "done" /\ Called("DELETE")) => (Called("COPY") /\ result = "Ok")
    /\ Called("COPY") => (pc = "done" /\ result = "Ok")
    /\ result = "Ok" => Len(calls) = Len(Order)

C10_Witness ==
    /\ pc = "done"
    /\ result = "Ok"
    /\ Len(calls) = 6
    /\ calls[5] = Call("DELETE", FALSE)
    /\ calls[6] = Call("COPY", FALSE)

====
